---- MODULE Spec2Model ----
(***************************************************************************)
(* Model of the Google Cloud storage driver of the Gaia hub                *)
(* (hub/src/server/drivers/GcDriver.js): path validation, bucket           *)
(* provisioning, paginated listing and streamed writes.                    *)
(*                                                                         *)
(* Strings are sequences of characters, so that concatenation, indexOf and *)
(* slice are computed as JavaScript computes them.                         *)
(***************************************************************************)
EXTENDS Integers, Sequences, FiniteSets, TLC

\* ------------------------------------------------------------------ bounds
MaxPathLen == 4     \* longest path string fed to isPathValid
MaxObjects == 3     \* most object keys in the bucket when a listing starts
MaxRuns    == 2     \* most createIfNeeded invocations per process
MaxEvents  == 2     \* most terminal events one write stream emits

\* ----------------------------------------------------------------- strings
Chars == {".", "/", "a"}

RECURSIVE StringsOfLen(_)
StringsOfLen(n) ==
    IF n = 0 THEN {<< >>}
    ELSE {Append(s, c) : s \in StringsOfLen(n - 1), c \in Chars}

StringsUpTo(n) == UNION {StringsOfLen(k) : k \in 0..n}

Min(a, b) == IF a < b THEN a ELSE b

\* String.prototype.indexOf(t): first 0-based index at which t occurs in s,
\* or -1.
RECURSIVE IndexFrom(_, _, _)
IndexFrom(s, t, i) ==
    IF i + Len(t) > Len(s) THEN -1
    ELSE IF SubSeq(s, i + 1, i + Len(t)) = t THEN i
    ELSE IndexFrom(s, t, i + 1)

indexOf(s, t) == IndexFrom(s, t, 0)

\* String.prototype.slice(n) for n >= 0: the characters from index n on.
slice(s, n) == IF n >= Len(s) THEN << >> ELSE SubSeq(s, n + 1, Len(s))

\* String.prototype.startsWith, as the backend matches a listing prefix.
StartsWith(s, t) == Len(t) =< Len(s) /\ SubSeq(s, 1, Len(t)) = t

\* a faulty variant of isPathValid: only a leading '..' is refused
isPathValid_leadingOnly(path) == ~StartsWith(path, <<".", ".">>)

\* GcDriver.isPathValid: for now, only disallow double dots.
isPathValid(path) == indexOf(path, <<".", ".">>) = -1

\* ------------------------------------------------------------------- state
VARIABLES
    config,      \* the constructor's argument: [bucket, pageSize]; pageSize 0 = not given
    bucket,      \* this.bucket
    pageSize,    \* this.pageSize
    exists,      \* backend: the bucket named this.bucket exists
    generation,  \* backend: how many times that bucket has been created
    objects,     \* backend: the object keys of the bucket, in listing order
    runs,        \* per process, the createIfNeeded invocations: [st, saw]
    alive,       \* per process, FALSE once process.exit() has run
    exitCause,   \* per process, which handler called process.exit()
    wr,          \* the performWrite call being followed
    calls,       \* the backend data calls issued so far (getFiles, createWriteStream)
    ls,          \* the listFiles loop being followed
    pathIn,      \* last argument given to isPathValid
    pathOut      \* and what it returned

vars == <<config, bucket, pageSize, exists, generation, objects, runs, alive,
          exitCause, wr, calls, ls, pathIn, pathOut>>

backendVars == <<exists, generation, objects>>
adapterVars == <<config, bucket, pageSize>>
procVars    == <<runs, alive, exitCause>>
pathVars    == <<pathIn, pathOut>>

\* the processes running the hub; process 1 is the one whose requests are followed
Procs == {1, 2}

\* null / undefined / 0: the falsy values of a page token
Null == 0
Truthy(x) == x # Null

DefaultPageSize == 100

BucketNames == {<<"b">>, <<"g">>}

\* the values a hub configuration may carry
Configs == [bucket : BucketNames, pageSize : 0..2]

\* ------------------------------------------------------------- construction
\* the first createIfNeeded invocation, launched by the constructor
NewRun == [st |-> "checking", saw |-> "unknown"]

\* no performWrite call yet: no write stream, the promise not settled
NoWrite == [st |-> "none", path |-> << >>, top |-> << >>, piped |-> FALSE,
            stream |-> << >>, url |-> << >>, events |-> << >>,
            delivered |-> << >>]

\* no listFiles call yet
NoList == [st |-> "idle", prefix |-> << >>, token |-> Null, acc |-> << >>,
           page |-> Null, lastNext |-> Null, pages |-> 0]

\* GcDriver.constructor, run by every process with the same configuration;
\* the backend is in one of the given states.
Constructed(cfgs, backends) ==
    /\ config \in cfgs
    /\ bucket = config.bucket
    /\ pageSize = IF config.pageSize # 0 THEN config.pageSize ELSE DefaultPageSize
    /\ \E b \in backends : exists = b.exists /\ objects = b.objects
    /\ generation = 0
    /\ runs = [p \in Procs |-> <<NewRun>>]
    /\ alive = [p \in Procs |-> TRUE]
    /\ exitCause = [p \in Procs |-> "none"]
    /\ wr = NoWrite
    /\ calls = {}
    /\ ls = NoList
    /\ pathIn = << >>
    /\ pathOut = TRUE

\* ------------------------------------------------------------- provisioning
\* process.exit() called from the handler named by cause
processExit(p, cause) ==
    /\ alive' = [alive EXCEPT ![p] = FALSE]
    /\ exitCause' = [exitCause EXCEPT ![p] = cause]

\* a faulty variant of the catch handlers: the error is logged and the process goes on
FailureHandler_logOnly(p, cause) == UNCHANGED <<alive, exitCause>>

\* the .catch handlers of createIfNeeded: logger.error, then process.exit()
FailureHandler(p, cause) == processExit(p, cause)

\* GcDriver.createIfNeeded, called again on a constructed adapter
CreateIfNeeded(p) ==
    /\ alive[p]
    /\ Len(runs[p]) < MaxRuns
    /\ runs' = [runs EXCEPT ![p] = Append(@, NewRun)]
    /\ UNCHANGED <<adapterVars, backendVars, alive, exitCause, wr, calls, ls, pathVars>>

\* a faulty variant of the exists() handler: the bucket is created whatever exists() said
ExistsHandler_alwaysCreate(p, r, data0) ==
    /\ runs' = [runs EXCEPT ![p][r] =
                   [st |-> "creating", saw |-> IF data0 THEN "present" ELSE "absent"]]
    /\ UNCHANGED <<alive, exitCause>>

\* the .then handler of bucket.exists(): data[0] says whether the bucket exists;
\* when it does not, storage.createBucket(this.bucket) is called
ExistsHandler(p, r, data0) ==
    /\ runs' = [runs EXCEPT ![p][r] =
                   IF ~data0 THEN [st |-> "creating", saw |-> "absent"]
                   ELSE [st |-> "noop", saw |-> "present"]]
    /\ UNCHANGED <<alive, exitCause>>

\* bucket.exists() settles: the backend answers, or the call fails
ExistsReply(p, r) ==
    /\ alive[p]
    /\ r \in DOMAIN runs[p]
    /\ runs[p][r].st = "checking"
    /\ \/ ExistsHandler(p, r, exists)
       \/ /\ runs' = [runs EXCEPT ![p][r].st = "failed"]
          /\ FailureHandler(p, "exists_failed")
    /\ UNCHANGED <<adapterVars, backendVars, wr, calls, ls, pathVars>>

\* storage.createBucket() settles. The backend refuses to create a bucket that
\* exists (409 conflict), may fail otherwise, or creates the bucket. The request
\* is handled by the backend even when the calling process has exited; the
\* handlers run only in a live process.
CreateReply(p, r) ==
    /\ r \in DOMAIN runs[p]
    /\ runs[p][r].st = "creating"
    /\ \/ /\ exists
          /\ runs' = [runs EXCEPT ![p][r].st = "failed"]
          /\ IF alive[p] THEN FailureHandler(p, "create_conflict")
                         ELSE UNCHANGED <<alive, exitCause>>
          /\ UNCHANGED backendVars
       \/ /\ ~exists
          /\ runs' = [runs EXCEPT ![p][r].st = "failed"]
          /\ IF alive[p] THEN FailureHandler(p, "create_failed")
                         ELSE UNCHANGED <<alive, exitCause>>
          /\ UNCHANGED backendVars
       \/ /\ ~exists
          /\ exists' = TRUE
          /\ generation' = generation + 1
          /\ runs' = [runs EXCEPT ![p][r].st = "created"]
          /\ UNCHANGED <<objects, alive, exitCause>>
    /\ UNCHANGED <<adapterVars, wr, calls, ls, pathVars>>

\* an empty bucket, or no bucket at all
FreshBackends == {[exists |-> e, objects |-> << >>] : e \in BOOLEAN}

\* the state after new GcDriver(config) in every process
Init == Constructed(Configs, FreshBackends)

NextProv ==
    \E p \in Procs :
        \/ CreateIfNeeded(p)
        \/ \E r \in 1..MaxRuns : ExistsReply(p, r)
        \/ \E r \in 1..MaxRuns : CreateReply(p, r)

\* two hub processes provisioning the same bucket, no requests
ProvSpec == Init /\ [][NextProv]_vars

\* ------------------------------------------------------------------ writes
\* the paths and tenant prefixes requests carry
WritePaths == {<<"x">>, <<".", ".">>, <<"x", "/", ".", ".">>}
Tops == {<<"a">>, <<".", ".">>}

\* GcDriver.getReadURLPrefix
getReadURLPrefix == <<"https://storage.googleapis.com/">> \o bucket \o <<"/">>

\* a faulty variant of the object key: the separator is left out
filename_noSeparator(storageTopLevel, path) == storageTopLevel \o path

\* const filename = `${args.storageTopLevel}/${args.path}`
filename(storageTopLevel, path) == storageTopLevel \o <<"/">> \o path

\* const publicURL = `${this.getReadURLPrefix()}${filename}`
publicURL(storageTopLevel, path) == getReadURLPrefix \o filename(storageTopLevel, path)

\* a faulty variant of the guard of performWrite: no path is refused
RejectsPath_never(path) == FALSE

\* if (!GcDriver.isPathValid(args.path))
RejectsPath(path) == ~isPathValid(path)

\* new BadPathError('Invalid Path')
BadPathError == [kind |-> "BadPathError", message |-> <<"Invalid Path">>]

\* new Error('Google cloud storage failure: failed to store' +
\*           ` ${filename} in bucket ${this.bucket}: ${err}`)
StorageError(key, bkt) ==
    [kind |-> "Error",
     message |-> <<"Google cloud storage failure: failed to store", " ">> \o key
                 \o <<" in bucket ">> \o bkt \o <<": ", "err">>]

\* resolve / reject of a promise: only the first call settles it
settle(w, outcome) ==
    IF w.delivered = << >> THEN [w EXCEPT !.delivered = <<outcome>>] ELSE w

\* this process's provisioning has confirmed or created the bucket
Provisioned(p) == \E r \in DOMAIN runs[p] : runs[p][r].st \in {"noop", "created"}

\* GcDriver.performWrite, up to the return of the promise
PerformWrite(p, path, top) ==
    /\ alive[p]
    /\ wr.st = "none" \/ wr.delivered # << >>
    /\ IF RejectsPath(path)
       THEN /\ wr' = [NoWrite EXCEPT !.st = "rejected", !.path = path, !.top = top,
                                     !.delivered = <<BadPathError>>]
            /\ UNCHANGED calls
       ELSE /\ wr' = [NoWrite EXCEPT !.st = "streaming", !.path = path, !.top = top,
                                     !.piped = TRUE,
                                     !.stream = <<[bucket |-> bucket,
                                                   key |-> filename(top, path)]>>,
                                     !.url = publicURL(top, path)]
            /\ calls' = calls \cup {[op |-> "createWriteStream",
                                     ready |-> Provisioned(p)]}
    /\ UNCHANGED <<adapterVars, backendVars, procVars, ls, pathVars>>

\* a faulty variant of the 'error' handler: the failure is logged and nothing is rejected
OnError_logOnly(w) == w

\* .on('error', ...): logger.error, then reject(new Error(...))
OnError(w) == settle(w, StorageError(w.stream[1].key, bucket))

\* .on('finish', ...): logger.debug, then resolve(publicURL)
OnFinish(w) == settle(w, [kind |-> "url", url |-> w.url])

\* the backend stores an object under key (a second write of a key replaces it)
Store(key) ==
    IF \E i \in DOMAIN objects : objects[i] = key THEN objects
    ELSE Append(objects, key)

\* the write stream emits 'error'
StreamError(p) ==
    /\ alive[p]
    /\ wr.st = "streaming"
    /\ Len(wr.events) < MaxEvents
    /\ wr' = [OnError(wr) EXCEPT !.events = Append(@, "error")]
    /\ UNCHANGED <<adapterVars, backendVars, procVars, calls, ls, pathVars>>

\* the write stream emits 'finish'. As the stream's first event it means the
\* upload completed, which takes an existing bucket; after an 'error' the
\* event stores nothing.
StreamFinish(p) ==
    /\ alive[p]
    /\ wr.st = "streaming"
    /\ Len(wr.events) < MaxEvents
    /\ IF wr.events = << >>
       THEN exists /\ objects' = Store(wr.stream[1].key)
       ELSE UNCHANGED objects
    /\ wr' = [OnFinish(wr) EXCEPT !.events = Append(@, "finish")]
    /\ UNCHANGED <<adapterVars, exists, generation, procVars, calls, ls, pathVars>>

\* ----------------------------------------------------------------- listing
\* the prefixes listings ask for
ListPrefixes == {<<"a">>, <<"a", "/">>}

\* the object keys a bucket may hold when a listing starts
Keys == {<<"a", "/", "x">>, <<"a", "/", "y">>, <<"a", "b", "/", "x">>, <<"b", "/", "x">>}

RECURSIVE DistinctSeqs(_, _)
DistinctSeqs(S, n) ==
    IF n = 0 THEN {<< >>}
    ELSE LET shorter == DistinctSeqs(S, n - 1)
         IN  shorter \cup
             {Append(q, k) : q \in {t \in shorter : Len(t) = n - 1},
                             k \in S}

NoRepeat(q) == \A i, j \in DOMAIN q : q[i] = q[j] => i = j

Datasets == {q \in DistinctSeqs(Keys, MaxObjects) : NoRepeat(q)}

\* a faulty variant of the listing options: the page token is never passed on
listOpts_noToken(prefix, page) ==
    [prefix |-> prefix, maxResults |-> pageSize, pageToken |-> Null]

\* the opts of listAllObjects: pageToken is set only for a truthy page
listOpts(prefix, page) ==
    [prefix |-> prefix, maxResults |-> pageSize,
     pageToken |-> IF Truthy(page) THEN page ELSE Null]

\* bucket.getFiles(opts) at the backend: the keys with the prefix, from the
\* offset the token stands for, at most maxResults of them, and the token of
\* the next page when keys remain
getFiles(opts) ==
    LET matching == SelectSeq(objects, LAMBDA k : StartsWith(k, opts.prefix))
        first    == opts.pageToken
        last     == Min(first + opts.maxResults, Len(matching))
    IN  [files     |-> IF first >= last THEN << >>
                       ELSE SubSeq(matching, first + 1, last),
         nextQuery |-> IF last < Len(matching) THEN last ELSE Null]

\* fileNames.push(file.name.slice(prefix.length + 1))
entryName(name, prefix) == slice(name, Len(prefix) + 1)

\* the getFiles callback of listAllObjects on success: the ListFilesResult
listResult(prefix, files, nextQuery) ==
    [entries |-> [i \in DOMAIN files |-> entryName(files[i], prefix)],
     page    |-> IF Truthy(nextQuery) THEN nextQuery ELSE Null]

GetFilesCall(p) == [op |-> "getFiles", ready |-> Provisioned(p)]

\* GcDriver.listFiles(prefix) with no page: the first call of a listing loop
ListFiles(p, prefix) ==
    /\ alive[p]
    /\ ls.st # "waiting"
    /\ ls' = [NoList EXCEPT !.st = "waiting", !.prefix = prefix]
    /\ calls' = calls \cup {GetFilesCall(p)}
    /\ UNCHANGED <<adapterVars, backendVars, procVars, wr, pathVars>>

\* getFiles fails (it must when there is no bucket): the promise is rejected
GetFilesError(p) ==
    /\ alive[p]
    /\ ls.st = "waiting"
    /\ ls' = [ls EXCEPT !.st = "failed"]
    /\ UNCHANGED <<adapterVars, backendVars, procVars, wr, calls, pathVars>>

\* getFiles answers: the promise resolves with the ListFilesResult; the caller
\* keeps the entries and, when the result carries a page, calls
\* listFiles(prefix, page) with it
GetFilesReply(p) ==
    /\ alive[p]
    /\ ls.st = "waiting"
    /\ exists
    /\ LET got == getFiles(listOpts(ls.prefix, ls.token))
           ret == listResult(ls.prefix, got.files, got.nextQuery)
       IN  /\ ls' = [ls EXCEPT !.acc = @ \o ret.entries,
                               !.page = ret.page,
                               !.lastNext = got.nextQuery,
                               !.pages = @ + 1,
                               !.token = ret.page,
                               !.st = IF ret.page = Null THEN "done" ELSE "waiting"]
           /\ calls' = IF ret.page = Null THEN calls
                       ELSE calls \cup {GetFilesCall(p)}
    /\ UNCHANGED <<adapterVars, backendVars, procVars, wr, pathVars>>

\* a bucket that exists and holds some objects
ListBackends == {[exists |-> TRUE, objects |-> d] : d \in Datasets}

InitList == Constructed(Configs, ListBackends)

NextList ==
    \/ \E prefix \in ListPrefixes : ListFiles(1, prefix)
    \/ GetFilesError(1)
    \/ GetFilesReply(1)

\* listing loops over a bucket whose content does not change
ListSpec == InitList /\ [][NextList]_vars

\* ----------------------------------------------------------- path validation
CheckPath(path) ==
    /\ pathIn' = path
    /\ pathOut' = isPathValid(path)
    /\ UNCHANGED <<adapterVars, backendVars, procVars, wr, calls, ls>>

NextPath == \E path \in StringsUpTo(MaxPathLen) : CheckPath(path)

\* isPathValid applied to every short string
PathSpec == Init /\ [][NextPath]_vars

\* ------------------------------------------------------------ the hub process
Next ==
    \/ ExistsReply(1, 1)
    \/ CreateReply(1, 1)
    \/ \E path \in WritePaths, top \in Tops : PerformWrite(1, path, top)
    \/ StreamError(1)
    \/ StreamFinish(1)
    \/ \E prefix \in ListPrefixes : ListFiles(1, prefix)
    \/ GetFilesError(1)
    \/ GetFilesReply(1)

\* one hub process: provisioning launched by the constructor, and requests
Spec == Init /\ [][Next]_vars

\* ================================================================== claims
\* the two-character substring '..' occurs somewhere in s
HasDotDot(s) == \E i \in 1..(Len(s) - 1) : s[i] = "." /\ s[i + 1] = "."

\* C6: isPathValid(path) is false for every string that contains '..' anywhere
\* and true for every other string, the empty string and single dots included.
C6_PathValidity == pathOut = ~HasDotDot(pathIn)

\* a '..' that is not at the start of the path has been refused
C6_Witness == pathIn = <<"a", "/", ".", ".">> /\ pathOut = FALSE

\* C1: a performWrite whose path contains '..' creates no write stream, does
\* not consume the content stream, issues no backend call and changes nothing
\* at the backend; it is rejected with BadPathError, whatever the
\* storageTopLevel.
C1_BadPathTouchesNothing ==
    [][(wr' # wr /\ wr'.events = << >> /\ HasDotDot(wr'.path))
         => /\ wr'.st = "rejected"
            /\ wr'.delivered = <<[kind |-> "BadPathError", message |-> <<"Invalid Path">>]>>
            /\ wr'.stream = << >>
            /\ ~wr'.piped
            /\ calls' = calls
            /\ objects' = objects]_vars

\* a path with '..' after a valid segment has been refused while the adapter
\* had already issued backend calls for other requests
C1_Witness ==
    /\ wr.st = "rejected"
    /\ wr.path = <<"x", "/", ".", ".">>
    /\ wr.top = <<"a">>
    /\ calls # {}

\* the URL and the object key the interface promises for the followed write
ExpectedKey == wr.top \o <<"/">> \o wr.path
ExpectedURL ==
    <<"https://storage.googleapis.com/">> \o config.bucket \o <<"/">> \o ExpectedKey

\* C7: a successful performWrite returns getReadURLPrefix() followed by
\* storageTopLevel + '/' + path, the object is stored under exactly that key in
\* the configured bucket, and getReadURLPrefix() is always the host followed by
\* the configured bucket name, before and after writes and listings.
C7_UrlRoundTrip ==
    /\ getReadURLPrefix = <<"https://storage.googleapis.com/">> \o config.bucket \o <<"/">>
    /\ \A i \in DOMAIN wr.delivered :
          wr.delivered[i].kind = "url"
            => /\ wr.delivered[i].url = ExpectedURL
               /\ wr.delivered[i].url = getReadURLPrefix \o ExpectedKey
               /\ wr.stream = <<[bucket |-> config.bucket, key |-> ExpectedKey]>>
               /\ \E k \in DOMAIN objects : objects[k] = ExpectedKey

\* a write of path x under tenant a has returned its URL after a listing ran
C7_Witness ==
    /\ wr.delivered # << >>
    /\ wr.delivered[1].kind = "url"
    /\ wr.path = <<"x">>
    /\ wr.top = <<"a">>
    /\ ls.st = "done"

\* the storage failure the interface promises for the followed write
ExpectedFailure ==
    [kind |-> "Error",
     message |-> <<"Google cloud storage failure: failed to store", " ">>
                 \o ExpectedKey \o <<" in bucket ">> \o config.bucket
                 \o <<": ", "err">>]

\* C5: when the write stream of a valid-path performWrite emits 'error' (the
\* upload has not finished), the call is rejected with the storage failure that
\* names the object key and the bucket, and no later event, 'finish' included,
\* turns the result into the URL; the call settles at most once.
C5_WriteFailure ==
    /\ Len(wr.delivered) =< 1
    /\ (wr.events # << >> /\ wr.events[1] = "error")
          => wr.delivered = <<ExpectedFailure>>

\* the stream emitted 'error' and then 'finish', and the call stays rejected
C5_Witness ==
    /\ wr.events = <<"error", "finish">>
    /\ wr.delivered # << >>
    /\ wr.delivered[1].kind = "Error"

\* C2: no backend write or listing call is issued before provisioning has
\* confirmed or created the bucket.
C2_NoCallBeforeProvisioned == \A c \in calls : c.ready

\* the requests of process 1
Requests ==
    \/ \E path \in WritePaths, top \in Tops : PerformWrite(1, path, top)
    \/ StreamError(1)
    \/ StreamFinish(1)
    \/ \E prefix \in ListPrefixes : ListFiles(1, prefix)
    \/ GetFilesError(1)
    \/ GetFilesReply(1)

\* C8: when the existence check fails, or the bucket is absent and creating it
\* fails, the process is terminated and serves no further request; provisioning
\* never terminates the process when its backend calls succeed.
C8_ProvisioningFailureIsFatal ==
    /\ runs[1][1].st = "failed" => ~alive[1]
    /\ ~alive[1] => /\ runs[1][1].st = "failed"
                    /\ exitCause[1] =
                          IF runs[1][1].saw = "unknown" THEN "exists_failed"
                          ELSE "create_failed"
                    /\ ~ENABLED Requests
    /\ runs[1][1].st \in {"noop", "created"} => alive[1] /\ exitCause[1] = "none"

\* creating the absent bucket failed after the process had taken a write
C8_Witness ==
    /\ ~alive[1]
    /\ exitCause[1] = "create_failed"
    /\ wr.st = "streaming"

\* the runs of createIfNeeded, as (process, index) pairs
Runs == {pr \in Procs \X (1..MaxRuns) : pr[2] \in DOMAIN runs[pr[1]]}
RunOf(pr) == runs[pr[1]][pr[2]]

\* C9: a createIfNeeded run whose existence check reports the bucket present
\* issues no create call and ends without error; a create call is issued only
\* by a run whose check reported the bucket absent; and however many runs are
\* made against a bucket that already exists, none creates it again and none
\* terminates the process from a create handler.
C9_ProvisioningIdempotent ==
    /\ \A pr \in Runs :
          /\ RunOf(pr).saw = "present" => RunOf(pr).st = "noop"
          /\ RunOf(pr).st \in {"creating", "created"} => RunOf(pr).saw = "absent"
          /\ RunOf(pr).st = "failed" /\ RunOf(pr).saw # "unknown"
                => RunOf(pr).saw = "absent"
    /\ \A p \in Procs :
          exitCause[p] \in {"create_failed", "create_conflict"}
             => \E r \in DOMAIN runs[p] :
                   runs[p][r].st = "failed" /\ runs[p][r].saw = "absent"
    /\ (exists /\ generation = 0)
          => /\ \A pr \in Runs : RunOf(pr).saw # "absent"
             /\ \A p \in Procs : exitCause[p] \in {"none", "exists_failed"}

\* process 1 ran createIfNeeded twice against a bucket that was there from the
\* start; both runs were no-ops and the process is alive
C9_Witness ==
    /\ exists
    /\ generation = 0
    /\ Len(runs[1]) = 2
    /\ \A r \in 1..2 : runs[1][r] = [st |-> "noop", saw |-> "present"]
    /\ alive[1]

\* C10: when two processes each run the check-and-create sequence once against
\* the same absent bucket, no process is terminated because the other created
\* the bucket between its existence check and its create call.
C10_NoConflictingExit ==
    ~ \E p, q \in Procs :
        /\ p # q
        /\ Len(runs[p]) = 1
        /\ Len(runs[q]) = 1
        /\ runs[q][1].st = "created"
        /\ runs[p][1] = [st |-> "failed", saw |-> "absent"]
        /\ exitCause[p] = "create_conflict"

\* the keys the backend lists for the prefix of the followed listing
Matching == SelectSeq(objects, LAMBDA k : StartsWith(k, ls.prefix))

RECURSIVE DropFirst(_, _)
DropFirst(s, n) == IF n = 0 \/ s = << >> THEN s ELSE DropFirst(Tail(s), n - 1)

\* C3: over a static bucket, following the returned page tokens from
\* listFiles(prefix) until a result carries page = null ends, and the
\* concatenated entries are one entry per listed key, in the backend's order,
\* none missing and none twice; a result carries a page exactly when the
\* backend reported a next page token.
C3_PaginationExhausts ==
    /\ (ls.page # Null) <=> (ls.lastNext # Null)
    /\ ls.st = "done"
          => /\ Len(ls.acc) = Len(Matching)
             /\ \A i \in DOMAIN ls.acc :
                   ls.acc[i] = DropFirst(Matching[i], Len(ls.prefix) + 1)
    /\ (ls.st = "waiting" /\ ls.pages > 0)
          => /\ Len(ls.acc) < Len(Matching)
             /\ ls.pages =< Len(ls.acc)
             /\ ENABLED GetFilesReply(1)

\* three keys were listed in three pages of one entry each
C3_Witness ==
    /\ ls.st = "done"
    /\ pageSize = 1
    /\ ls.pages = 3
    /\ Len(ls.acc) = 3

\* C4: every entry e returned for a listed key satisfies prefix + '/' + e = key.
C4_EntriesRelativeToPrefix ==
    \A i \in DOMAIN ls.acc :
        i \in DOMAIN Matching => ls.prefix \o <<"/">> \o ls.acc[i] = Matching[i]

====
